---------------------------- MODULE Spec2Model ----------------------------
(***************************************************************************)
(* Model of SillyTavern-NarratorExpressions (src/index.js):                *)
(*   - the presence / ordering resolver (getPresentOrderedNames and the    *)
(*     span scanner and word counter it uses),                             *)
(*   - the debounced restart (debounceAsync, restart, start, end),         *)
(*   - the roster engine (updateMembers) driven by the periodic            *)
(*     messageRendered loops.                                              *)
(* Indices of texts are the 0-based indices of the JavaScript source; a    *)
(* text is a sequence of one-character strings.                            *)
(***************************************************************************)
EXTENDS Integers, Sequences, FiniteSets, TLC

(***************************************************************************)
(* Bounds of the model.                                                    *)
(***************************************************************************)
\* longest enumerated message text, counted in chunks of Chunks
MaxTokens == 3
\* restart() calls made by the handlers in one behaviour
MaxCalls == 3
\* largest finite value of settings.numLeft / settings.numRight
MaxCap == 1
\* restart() calls in one behaviour of the roster specification
MaxRestarts == 2
\* longest text of the span scanner specification, counted in characters
MaxSpanLen == 5

(***************************************************************************)
(* State.                                                                  *)
(***************************************************************************)
VARIABLES
    \* one call of getPresentOrderedNames(lastMes, nameList)
    lastMes,        \* its message: [mes: text, is_user: BOOLEAN]
    masterNames,    \* its nameList argument
    csMembers,      \* csettings.members
    csExclude,      \* csettings.exclude (lower-case names)
    orderedNames,   \* the names it returned
    rpc,            \* "call" before the call, "done" after it, "shown" after
                    \* the pass over the wrappers, "off" when unused
    order,          \* the --order that pass left on each wrapper of imgs
    \* the environment and the settings
    cast,           \* the names the chat, the group or csettings.members can yield
    exprWrapper,    \* document.querySelector('#expression-wrapper') is not null
    isEnabled,      \* settings.isEnabled
    numLeft,        \* settings.numLeft
    numRight,       \* settings.numRight
    \* the closure of debounceAsync; a timer and a promise are named by the
    \* number of the call that created them, 0 is undefined / null
    timer,
    timers,         \* the armed timeouts that were neither cleared nor fired
    debouncePromise,
    debounceResolver,
    \* restart
    restarting,
    delaying,       \* restart sequences suspended at await delay(...)
    \* the messageRendered loops
    sleeping,       \* loops suspended outside updateMembers
    bodies,         \* locals of the updateMembers calls between entry and exit
    \* the roster
    nameList, left, right, current,
    imgs,           \* data-character of the wrappers in imgs
    busy,
    \* the engine: set by start(), cleared by end()
    root,           \* the .stge--root element
    groupId,
    chatId,
    \* history
    callLog,        \* per restart() call: the promise returned, and whether the
                    \* timer of the previous call was still armed
    execLog,        \* per execution of the wrapped function: the timer that ran
                    \* it and the promise its result was handed to
    settled,        \* per promise: the execution it was resolved with, 0 if none
    endCalls,       \* calls of end()
    startCalls,     \* calls of start()
    lastTick,       \* the latest step, when it was a loop iteration: it
                    \* "skipped" updateMembers, it "ran" it, or it "repeated"
                    \* the call before it (the same desired names, that call
                    \* completed and still clean), or the loop "ended";
                    \* "none" after any other step
    names,          \* the desired names of the latest updateMembers call
    clean,          \* no end() and no capacity input since that call was entered
    capsHeld,       \* no capacity input since that call was entered
    fromEmpty,      \* the roster was empty when that call was entered
    aborted,        \* that call ended in its catch block
    fx,             \* that call created, animated out or removed a wrapper
    dirty           \* end() ran during an updateMembers call since the roster
                    \* was last cleared outside of one

resolveVars == <<lastMes, masterNames, csMembers, csExclude, orderedNames, rpc, order>>

envVars == <<cast, exprWrapper>>

capVars == <<numLeft, numRight>>

debounceVars == <<timer, timers, debouncePromise, debounceResolver>>

debounceLogs == <<callLog, execLog, settled>>

rosterVars == <<nameList, left, right, current, imgs>>

engineVars == <<root, groupId, chatId>>

callVars == <<names, clean, capsHeld, fromEmpty, aborted, fx>>

vars == <<resolveVars, envVars, isEnabled, capVars, debounceVars, debounceLogs,
          restarting, delaying, sleeping, bodies, rosterVars, busy, engineVars,
          endCalls, startCalls, lastTick, callVars, dirty>>

(***************************************************************************)
(* Values.                                                                 *)
(***************************************************************************)
\* null / undefined of the source (an unset name)
Null == "null"

\* the value of a variable declared without an initializer
Undefined == "undefined"

\* spelling of the words that occur in names and message texts
Spell(w) ==
    CASE w = "Alice"    -> <<"A", "l", "i", "c", "e">>
      [] w = "Bob"      -> <<"B", "o", "b">>
      [] w = "Carol"    -> <<"C", "a", "r", "o", "l">>
      [] w = "UserName" -> <<"U", "s", "e", "r", "N", "a", "m", "e">>
      [] w = "bob"      -> <<"b", "o", "b">>
      [] w = "says"     -> <<"s", "a", "y", "s">>
      [] w = "hello"    -> <<"h", "e", "l", "l", "o">>
      [] w = "to"       -> <<"t", "o">>
      [] w = "and"      -> <<"a", "n", "d">>
      [] w = "said"     -> <<"s", "a", "i", "d">>
      [] w = ", "       -> <<",", " ">>
      [] OTHER          -> <<w>>

\* String.prototype.toLowerCase on one character
LowerChar(c) ==
    CASE c = "A" -> "a" [] c = "B" -> "b" [] c = "C" -> "c"
      [] c = "U" -> "u" [] c = "N" -> "n" [] OTHER -> c

\* String.prototype.toLowerCase on a name
toLowerCase(name) ==
    CASE name = "Alice" -> "alice" [] name = "Bob" -> "bob"
      [] name = "Carol" -> "carol" [] name = "UserName" -> "username"
      [] OTHER -> name

\* the characters that are not word characters (\W of the regular expression)
NonWordChars == {" ", ",", "\"", "*", "(", ")", "."}

IsNonWord(c) == c \in NonWordChars

RECURSIVE Flatten(_)
\* the text spelled by a sequence of words
Flatten(ws) ==
    IF ws = <<>> THEN <<>> ELSE Spell(Head(ws)) \o Flatten(Tail(ws))

\* text.slice(start, end), 0-based, end exclusive
Slice(text, start, end) ==
    IF end <= start THEN <<>> ELSE SubSeq(text, start + 1, end)

RECURSIVE IndexOfFrom(_, _, _)
\* text.indexOf(ch, from): 0-based index of the first ch at or after from, or -1
IndexOfFrom(text, ch, from) ==
    IF from >= Len(text) THEN -1
    ELSE IF text[from + 1] = ch THEN from
    ELSE IndexOfFrom(text, ch, from + 1)

RECURSIVE IndexOfSeq(_, _, _)
\* array.indexOf(x) as a 1-based position, 0 when x is absent (the source's -1)
IndexOfSeq(s, x, i) ==
    IF i > Len(s) THEN 0
    ELSE IF s[i] = x THEN i
    ELSE IndexOfSeq(s, x, i + 1)

IndexOf(s, x) == IndexOfSeq(s, x, 1)

Contains(s, x) == IndexOf(s, x) > 0

\* the sequence s without its element at position i (1-based)
RemoveAt(s, i) == SubSeq(s, 1, i - 1) \o SubSeq(s, i + 1, Len(s))

(***************************************************************************)
(* SpanScanner: parseBracketSpans, getNonBracketSpans.                     *)
(***************************************************************************)
BracketTokens == {"\"", "*"}

RECURSIVE ScanBrackets(_, _, _)
RECURSIVE CloseBracket(_, _, _, _)
\* mutant of CloseBracket: the scan resumes at the closing token
CloseBracket_Reopen(text, i, spans, j) ==
    IF j = -1
    THEN Append(spans, [start |-> i, end |-> Len(text)])
    ELSE ScanBrackets(text, j, Append(spans, [start |-> i, end |-> j + 1]))

\* mutant of CloseBracket: the scan goes on after an unclosed bracket
CloseBracket_NoBreak(text, i, spans, j) ==
    IF j = -1
    THEN ScanBrackets(text, i + 1, Append(spans, [start |-> i, end |-> Len(text)]))
    ELSE ScanBrackets(text, j + 1, Append(spans, [start |-> i, end |-> j + 1]))

\* the bracket opened at i with closeIdx j: unclosed brackets run to the end of
\* the text, closed ones end after the closing token and the scan resumes there
CloseBracket(text, i, spans, j) ==
    IF j = -1
    THEN Append(spans, [start |-> i, end |-> Len(text)])
    ELSE ScanBrackets(text, j + 1, Append(spans, [start |-> i, end |-> j + 1]))

\* the for loop of parseBracketSpans from index i on
ScanBrackets(text, i, spans) ==
    IF i >= Len(text) THEN spans
    ELSE IF text[i + 1] \notin BracketTokens THEN ScanBrackets(text, i + 1, spans)
    ELSE CloseBracket(text, i, spans, IndexOfFrom(text, text[i + 1], i + 1))

parseBracketSpans(text) == ScanBrackets(text, 0, <<>>)

Max(a, b) == IF a >= b THEN a ELSE b

\* one bracket span b of the loop of getNonBracketSpans: the plain span before
\* it is pushed when it is not empty, the cursor moves to the end of b
SkipBracket(acc, b) ==
    [cursor |-> Max(acc.cursor, b.end),
     spans  |-> IF b.start > acc.cursor
                THEN Append(acc.spans, [start |-> acc.cursor, end |-> b.start])
                ELSE acc.spans]

RECURSIVE Complement(_, _, _, _)
\* the for loop of getNonBracketSpans over the bracket spans from position k on,
\* and the trailing plain span
Complement(text, brackets, k, acc) ==
    IF k > Len(brackets)
    THEN IF acc.cursor < Len(text)
         THEN Append(acc.spans, [start |-> acc.cursor, end |-> Len(text)])
         ELSE acc.spans
    ELSE Complement(text, brackets, k + 1, SkipBracket(acc, brackets[k]))

\* mutant of PlainSpans: the whole text is one plain span
PlainSpans_Whole(text, brackets) == << [start |-> 0, end |-> Len(text)] >>

\* getNonBracketSpans after its call of parseBracketSpans
PlainSpans(text, brackets) ==
    IF brackets = <<>>
    THEN << [start |-> 0, end |-> Len(text)] >>
    ELSE Complement(text, brackets, 1, [cursor |-> 0, spans |-> <<>>])

getNonBracketSpans(text) == PlainSpans(text, parseBracketSpans(text))

(***************************************************************************)
(* PresenceCounter: makeWordRegex, countOccurrencesOutsideBrackets.        *)
(***************************************************************************)
\* the characters n match hay at index i, case-insensitively (flag i)
CharsAt(hay, i, n) ==
    /\ i >= 0
    /\ i + Len(n) <= Len(hay)
    /\ \A k \in 1..Len(n) : LowerChar(hay[i + k]) = LowerChar(n[k])

\* the escaped name matches hay at index i
NameAt(hay, i, name) == CharsAt(hay, i, Spell(name))

\* (?:$|\W) at index e: the index after the match, or -1
TailEnd(hay, e) ==
    IF e = Len(hay) THEN e
    ELSE IF IsNonWord(hay[e + 1]) THEN e + 1
    ELSE -1

\* the alternative ^ of (?:^|\W) at index i: the index after the match, or -1
ViaStart(hay, i, name) ==
    IF i = 0 /\ NameAt(hay, 0, name) THEN TailEnd(hay, Len(Spell(name))) ELSE -1

\* the alternative \W of (?:^|\W) at index i: the index after the match, or -1
ViaNonWord(hay, i, name) ==
    IF i < Len(hay) /\ IsNonWord(hay[i + 1]) /\ NameAt(hay, i + 1, name)
    THEN TailEnd(hay, i + 1 + Len(Spell(name)))
    ELSE -1

\* the first alternative that matches wins
FirstAlternative(a, b) == IF a # -1 THEN a ELSE b

\* makeWordRegex(name) applied at index i of hay: the pattern
\* (?:^|\W)(name)(?:$|\W); the index after the match, or -1 when it fails.
\* The alternative ^ is tried before \W.
makeWordRegex(hay, i, name) ==
    FirstAlternative(ViaStart(hay, i, name), ViaNonWord(hay, i, name))

RECURSIVE matchAll(_, _, _)
RECURSIVE MatchFrom(_, _, _, _)
\* the attempt at index from ended at e: a failure moves one character on, a
\* match yields m.index = from and the search resumes where the match ended
MatchFrom(hay, name, from, e) ==
    IF e = -1 THEN matchAll(hay, name, from + 1)
    ELSE <<from>> \o matchAll(hay, name, IF e > from THEN e ELSE from + 1)

\* hay.matchAll(local): the indices (m.index) of the successive matches of the
\* global regular expression
matchAll(hay, name, from) ==
    IF from > Len(hay) THEN <<>>
    ELSE MatchFrom(hay, name, from, makeWordRegex(hay, from, name))

\* the matches of one span: an empty span is skipped
MatchesIn(hay, name) == IF hay = <<>> THEN <<>> ELSE matchAll(hay, name, 0)

RECURSIVE CountMatches(_, _, _)
\* the for loop over the matches of one span starting at index start:
\* count++, and firstIndex (-1 is the source's null) keeps the lowest absIndex
CountMatches(acc, start, ms) ==
    IF ms = <<>> THEN acc
    ELSE CountMatches(
            [count |-> acc.count + 1,
             firstIndex |-> IF acc.firstIndex = -1 \/ start + Head(ms) < acc.firstIndex
                            THEN start + Head(ms)
                            ELSE acc.firstIndex],
            start, Tail(ms))

RECURSIVE CountInSpans(_, _, _, _, _)
\* the for loop of countOccurrencesOutsideBrackets over the spans from k on
CountInSpans(text, name, spans, k, acc) ==
    IF k > Len(spans) THEN acc
    ELSE CountInSpans(text, name, spans, k + 1,
            CountMatches(acc, spans[k].start,
                MatchesIn(Slice(text, spans[k].start, spans[k].end), name)))

countOccurrencesOutsideBrackets(text, name, nonBracketSpans) ==
    CountInSpans(text, name, nonBracketSpans, 1, [count |-> 0, firstIndex |-> -1])

(***************************************************************************)
(* PresenceResolver: getPresentOrderedNames.                               *)
(***************************************************************************)
\* USER_NAME: the first custom member when there are any, else nameList[0]
UserNameOf(members, masterList) ==
    IF Len(members) > 0 THEN members[1]
    ELSE IF Len(masterList) > 0 THEN masterList[1]
    ELSE Null

\* mutant of IsExcluded: no name is skipped
IsExcluded_Never(exclude, name) == FALSE

\* csettings.exclude.indexOf(name.toLowerCase()) > -1
IsExcluded(exclude, name) == Contains(exclude, toLowerCase(name))

\* if (count > 0) items.push({ name, count, firstIndex, masterIndex: i })
PushCounted(items, name, i, c) ==
    IF c.count > 0
    THEN Append(items, [name |-> name, count |-> c.count, firstIndex |-> c.firstIndex,
                        masterIndex |-> i - 1, forced |-> FALSE])
    ELSE items

RECURSIVE CollectItems(_, _, _, _, _, _)
\* the for loop over masterList: one item per non-excluded name with count > 0
CollectItems(text, spans, masterList, exclude, i, items) ==
    IF i > Len(masterList) THEN items
    ELSE CollectItems(text, spans, masterList, exclude, i + 1,
            IF IsExcluded(exclude, masterList[i]) THEN items
            ELSE PushCounted(items, masterList[i], i,
                    countOccurrencesOutsideBrackets(text, masterList[i], spans)))

\* items.findIndex(it => it.name === name) as a 1-based position, 0 when absent
FindItem(items, name) ==
    IF \E k \in 1..Len(items) : items[k].name = name
    THEN CHOOSE k \in 1..Len(items) :
            /\ items[k].name = name
            /\ \A j \in 1..(k - 1) : items[j].name # name
    ELSE 0

\* the user item found at position k (0: absent) is marked forced, or pushed
ForceAt(items, user, k) ==
    IF k = 0
    THEN Append(items, [name |-> user, count |-> 1, firstIndex |-> 0,
                        masterIndex |-> 0, forced |-> TRUE])
    ELSE [items EXCEPT ![k].forced = TRUE]

\* mutant of ForceUser: the user item is pushed without looking for it
ForceUser_Push(items, user) == ForceAt(items, user, 0)

\* the user item of a user message: pushed when absent, marked forced when present
ForceUser(items, user) == ForceAt(items, user, FindItem(items, user))

\* if (lastMes.is_user && USER_NAME) { ... forced ... }
WithForcedUser(is_user, user, items) ==
    IF is_user /\ user # Null THEN ForceUser(items, user) ELSE items

\* mutant of SortsBefore: the counts compared the wrong way round
SortsBefore_CountAscending(a, b) ==
    IF b.count # a.count THEN a.count < b.count
    ELSE IF a.firstIndex # b.firstIndex THEN a.firstIndex < b.firstIndex
    ELSE a.masterIndex < b.masterIndex

\* the comparator of items.sort is negative: a sorts before b.
\* A null firstIndex (-1) counts as Infinity.
SortsBefore(a, b) ==
    IF b.count # a.count THEN a.count > b.count
    ELSE IF a.firstIndex # b.firstIndex
    THEN IF a.firstIndex = -1 THEN FALSE
         ELSE IF b.firstIndex = -1 THEN TRUE
         ELSE a.firstIndex < b.firstIndex
    ELSE a.masterIndex < b.masterIndex

RECURSIVE InsertItem(_, _)
\* x placed before the first item it sorts before
InsertItem(sorted, x) ==
    IF sorted = <<>> THEN <<x>>
    ELSE IF SortsBefore(x, Head(sorted)) THEN <<x>> \o sorted
    ELSE <<Head(sorted)>> \o InsertItem(Tail(sorted), x)

RECURSIVE SortItems(_, _)
\* items.sort(comparator): Array.prototype.sort is stable
SortItems(items, sorted) ==
    IF items = <<>> THEN sorted
    ELSE SortItems(Tail(items), InsertItem(sorted, Head(items)))

\* mutant of DemoteUser: USER in slot 0 is moved behind every other item
DemoteUser_ToBack(items, user) ==
    IF FindItem(items, user) = 1 /\ Len(items) > 1
    THEN Tail(items) \o <<items[1]>>
    ELSE items

\* the special rule of a non-user message: USER in slot 0 swaps with slot 1
DemoteUser(items, user) ==
    IF FindItem(items, user) = 1 /\ Len(items) > 1
    THEN <<items[2], items[1]>> \o SubSeq(items, 3, Len(items))
    ELSE items

\* mutant of MoveUserToFront: the forced user stays where the sort left it
MoveUserToFront_Stay(items, user) == items

\* the item at position k (0: absent) is spliced out and unshifted
UnshiftAt(items, k) ==
    IF k > 0 THEN <<items[k]>> \o RemoveAt(items, k) ELSE items

\* the forced user of a user message is spliced out and unshifted
MoveUserToFront(items, user) == UnshiftAt(items, FindItem(items, user))

\* the adjustments after the sort: demotion for a message not of the user,
\* the forced user first for a message of the user
AdjustUser(is_user, user, sorted) ==
    IF user = Null THEN sorted
    ELSE IF is_user THEN MoveUserToFront(sorted, user)
    ELSE DemoteUser(sorted, user)

\* items.map(it => it.name)
ItemNames(items) == [k \in 1..Len(items) |-> items[k].name]

\* the items after the sort, before the demotion / forcing adjustments
SortedItems(mes, masterList, members, exclude) ==
    SortItems(
        WithForcedUser(mes.is_user, UserNameOf(members, masterList),
            CollectItems(mes.mes, getNonBracketSpans(mes.mes), masterList, exclude, 1, <<>>)),
        <<>>)

getPresentOrderedNames(mes, masterList, members, exclude) ==
    IF mes.mes = <<>> /\ mes.is_user
    THEN IF UserNameOf(members, masterList) # Null
         THEN <<UserNameOf(members, masterList)>>
         ELSE <<>>
    ELSE ItemNames(AdjustUser(mes.is_user, UserNameOf(members, masterList),
                              SortedItems(mes, masterList, members, exclude)))

(***************************************************************************)
(* The resolver applied to bounded inputs.                                 *)
(***************************************************************************)
\* the chunks the enumerated message texts are made of
Chunks == {"UserName", "Alice", "Bob", "bob", "s", " ", ", ", "\"", "*"}

\* the message texts of the source's comments and sanity tests, and of the
\* examples of the presence rules
ExampleTexts ==
    { <<"Alice", " ", "says", " ", "hello", " ", "to", " ", "Bob", " ", "and", " ", "Alice">>,
      <<"(", "Alice", ")", " ", "Bob", " ", "Alice">>,
      <<"\"", "Alice", "\"", " ", "said", " ", "Bob">>,
      <<"UserName", " ", "says", " ", "hello", " ", "to", " ", "Bob">>,
      <<"Bob", ", ", "Bob", " ", "and", " ", "UserName", ", ", "Alice">>,
      <<"UserName", ", ", "Bob", " ", "and", " ", "Alice">> }

WordTexts == UNION {[1..n -> Chunks] : n \in 0..MaxTokens} \cup ExampleTexts

\* the configurations: master name list, custom members, exclude list
ResolveConfigs ==
    { [nameList |-> <<"UserName", "Bob">>, members |-> <<>>, exclude |-> <<>>],
      [nameList |-> <<"Alice", "Bob", "Carol">>, members |-> <<>>, exclude |-> <<>>],
      [nameList |-> <<"Alice", "Bob", "Carol">>, members |-> <<"UserName">>, exclude |-> <<>>],
      [nameList |-> <<"UserName", "Alice", "Bob">>,
       members |-> <<"UserName", "Alice", "Bob">>, exclude |-> <<"bob">>],
      [nameList |-> <<"Bob", "UserName", "Alice">>, members |-> <<"UserName">>, exclude |-> <<>>],
      [nameList |-> <<"UserName", "Alice", "Bob">>, members |-> <<>>, exclude |-> <<"username">>],
      [nameList |-> <<>>, members |-> <<>>, exclude |-> <<>>] }

\* the state after the extension is loaded, the roster apart: init() has run,
\* nothing is started
AppAtLoad ==
    /\ isEnabled = TRUE
    /\ timer = 0
    /\ timers = {}
    /\ debouncePromise = 0
    /\ debounceResolver = 0
    /\ restarting = FALSE
    /\ delaying = 0
    /\ sleeping = 0
    /\ bodies = <<>>
    /\ busy = FALSE
    /\ root = Undefined
    /\ groupId = Undefined
    /\ chatId = Undefined
    /\ callLog = <<>>
    /\ execLog = <<>>
    /\ settled = [p \in 1..MaxCalls |-> 0]
    /\ endCalls = 0
    /\ startCalls = 0
    /\ lastTick = "none"
    /\ names = <<>>
    /\ clean = FALSE
    /\ capsHeld = FALSE
    /\ fromEmpty = FALSE
    /\ aborted = FALSE
    /\ fx = FALSE
    /\ dirty = FALSE

\* let nameList = []; left = []; right = []; current; const imgs = []
RosterAtLoad ==
    /\ nameList = <<>>
    /\ left = <<>>
    /\ right = <<>>
    /\ current = Null
    /\ imgs = <<>>

\* the state after the extension is loaded
InitApp == AppAtLoad /\ RosterAtLoad

\* no call of the resolver is followed
ResolverOff ==
    /\ lastMes = [mes |-> <<>>, is_user |-> FALSE]
    /\ masterNames = <<>>
    /\ csMembers = <<>>
    /\ csExclude = <<>>
    /\ orderedNames = <<>>
    /\ rpc = "off"
    /\ order = <<>>

InitResolve ==
    /\ \E ws \in WordTexts, u \in BOOLEAN :
          lastMes = [mes |-> Flatten(ws), is_user |-> u]
    /\ \E c \in ResolveConfigs :
          /\ masterNames = c.nameList
          /\ csMembers = c.members
          /\ csExclude = c.exclude
    /\ orderedNames = <<>>
    /\ rpc = "call"
    /\ order = <<>>
    /\ cast = {}
    /\ exprWrapper = TRUE
    /\ numLeft = -1
    /\ numRight = -1
    /\ InitApp

\* const orderedNames = await getPresentOrderedNames(lastMes, nameList)
ResolveCall ==
    /\ rpc = "call"
    /\ orderedNames' = getPresentOrderedNames(lastMes, masterNames, csMembers, csExclude)
    /\ rpc' = "done"
    /\ UNCHANGED <<lastMes, masterNames, csMembers, csExclude, order>>
    /\ UNCHANGED <<envVars, isEnabled, capVars, debounceVars, debounceLogs,
                   restarting, delaying, sleeping, bodies, rosterVars, busy, engineVars,
                   endCalls, startCalls, lastTick, callVars, dirty>>

NextResolve == ResolveCall

SpecResolve == InitResolve /\ [][NextResolve]_vars

(***************************************************************************)
(* Properties of the resolver.                                             *)
(***************************************************************************)
\* USER_NAME of the call
UserName == UserNameOf(csMembers, masterNames)

\* the names in the order the sort left them, before demotion and forcing
SortedNames == ItemNames(SortedItems(lastMes, masterNames, csMembers, csExclude))

\* the sequence s without the name x
Without(s, x) == SelectSeq(s, LAMBDA y : y # x)

\* count and first index of a name in the plain spans of the message
Presence(name) ==
    countOccurrencesOutsideBrackets(lastMes.mes, name, getNonBracketSpans(lastMes.mes))

\* the non-excluded master names that occur in the plain spans
PresentNames ==
    {masterNames[k] : k \in {j \in 1..Len(masterNames) :
        /\ ~IsExcluded(csExclude, masterNames[j])
        /\ Presence(masterNames[j]).count > 0}}

\* name a ranks strictly before name b: more occurrences, then the earlier
\* first occurrence, then the earlier place in the master list
RanksBefore(a, b) ==
    LET pa == Presence(a)
        pb == Presence(b)
    IN  \/ pa.count > pb.count
        \/ pa.count = pb.count /\ pa.firstIndex < pb.firstIndex
        \/ /\ pa.count = pb.count
           /\ pa.firstIndex = pb.firstIndex
           /\ IndexOf(masterNames, a) < IndexOf(masterNames, b)

UserIsTopSorted == UserName # Null /\ SortedNames # <<>> /\ SortedNames[1] = UserName

SanityText1 ==
    Flatten(<<"Alice", " ", "says", " ", "hello", " ", "to", " ", "Bob", " ", "and", " ", "Alice">>)

\* C8: user forcing. For a message of the user with USER_NAME defined, the
\* first returned name is USER_NAME and the names after it are the sorted
\* names without USER_NAME, in their sorted order; for an empty text the
\* result is exactly [USER_NAME].
C8_UserForcing ==
    (rpc = "done" /\ lastMes.is_user /\ UserName # Null) =>
        /\ orderedNames # <<>>
        /\ orderedNames[1] = UserName
        /\ lastMes.mes = <<>> => orderedNames = <<UserName>>
        /\ lastMes.mes # <<>> => Tail(orderedNames) = Without(SortedNames, UserName)

\* C8 witness: a user message in which another name sorted ahead of USER_NAME
\* and two more names follow the forced USER_NAME
C8_Witness ==
    /\ rpc = "done"
    /\ lastMes.is_user
    /\ UserName # Null
    /\ Len(SortedNames) >= 3
    /\ SortedNames[1] # UserName
    /\ orderedNames[1] = UserName

\* C9: user demotion. For a message not of the user, a result of two or more
\* names does not start with USER_NAME; a USER_NAME that sorted first ends at
\* index 1 exactly; the other names keep their sorted order.
C9_UserDemotion ==
    (rpc = "done" /\ ~lastMes.is_user /\ UserName # Null) =>
        /\ Len(orderedNames) >= 2 => orderedNames[1] # UserName
        /\ (Len(SortedNames) >= 2 /\ SortedNames[1] = UserName) => orderedNames[2] = UserName
        /\ Len(orderedNames) = Len(SortedNames)
        /\ Without(orderedNames, UserName) = Without(SortedNames, UserName)

\* C9 witness: USER_NAME sorted first of three names and was pushed back one slot
C9_Witness ==
    /\ rpc = "done"
    /\ ~lastMes.is_user
    /\ Len(SortedNames) >= 3
    /\ SortedNames[1] = UserName
    /\ orderedNames[2] = UserName
    /\ orderedNames[1] = SortedNames[2]

Least(S) == CHOOSE x \in S : \A y \in S : x <= y

RECURSIVE Bracketed(_, _)
\* the 0-based indices, from index i on, of the characters inside a span
\* delimited by a double quote or an asterisk and the next same character,
\* the delimiters included; an opening character that is never closed
\* brackets the rest of the text
Bracketed(text, i) ==
    IF i >= Len(text) THEN {}
    ELSE IF text[i + 1] \notin {"\"", "*"} THEN Bracketed(text, i + 1)
    ELSE IF \E j \in (i + 1)..(Len(text) - 1) : text[j + 1] = text[i + 1]
    THEN (i..Least({j \in (i + 1)..(Len(text) - 1) : text[j + 1] = text[i + 1]}))
            \cup Bracketed(text, 1 + Least({j \in (i + 1)..(Len(text) - 1) :
                                               text[j + 1] = text[i + 1]}))
    ELSE i..(Len(text) - 1)

\* the indices at which name stands in text with none of its characters
\* inside a delimited span
PlainOccurrences(text, name, inside) ==
    {p \in 0..(Len(text) - 1) :
        /\ NameAt(text, p, name)
        /\ \A q \in p..(p + Len(Spell(name)) - 1) : q \notin inside}

\* count and firstIndex c of name count only occurrences of occ: at most one
\* match per occurrence, and the first match starts at an occurrence or at the
\* non-word character before it
CountsOnly(c, occ) ==
    /\ c.count <= Cardinality(occ)
    /\ c.firstIndex = -1 <=> c.count = 0
    /\ c.count > 0 => (c.firstIndex \in occ \/ c.firstIndex + 1 \in occ)

QuotedText == Flatten(<<"\"", "Alice", "\"", " ", "said", " ", "Bob">>)

\* C11: occurrences of a name inside a span delimited by a pair of double
\* quotes or of asterisks are never counted: for every text and name,
\* countOccurrencesOutsideBrackets counts only occurrences that lie wholly
\* outside the delimited spans; for the text "Alice" said Bob the count is 0
\* for Alice and 1 for Bob.
C11_BracketedNotCounted ==
    rpc = "done" =>
        /\ \A name \in {"Alice", "Bob", "Carol", "UserName"} :
              CountsOnly(Presence(name),
                         PlainOccurrences(lastMes.mes, name, Bracketed(lastMes.mes, 0)))
        /\ lastMes.mes = QuotedText =>
              /\ Presence("Alice").count = 0
              /\ Presence("Bob").count = 1

\* C11 witness: the example text resolved to Bob alone, Alice being quoted
C11_Witness ==
    /\ rpc = "done"
    /\ ~lastMes.is_user
    /\ lastMes.mes = QuotedText
    /\ masterNames = <<"Alice", "Bob", "Carol">>
    /\ Presence("Alice").count = 0
    /\ orderedNames = <<"Bob">>

\* the lowercased form of name is in the exclude list of the call
InExcludeList(name) == \E k \in 1..Len(csExclude) : csExclude[k] = toLowerCase(name)

\* C13: a name whose lowercased form is in the exclude list does not appear in
\* the result of getPresentOrderedNames, except USER_NAME in the result of a
\* message of the user, where it is forced to the front, excluded or not.
C13_ExcludedAbsent ==
    rpc = "done" =>
        \A k \in 1..Len(orderedNames) :
            InExcludeList(orderedNames[k]) =>
                (lastMes.is_user /\ orderedNames[k] = UserName /\ k = 1)

\* C13 as stated: no excluded name appears in the result, whatever the message
C13_Original ==
    rpc = "done" => \A k \in 1..Len(orderedNames) : ~InExcludeList(orderedNames[k])

\* C13 witness: an excluded master name occurs in the plain text of a message
\* and is left out of a result that holds another name
C13_Witness ==
    /\ rpc = "done"
    /\ ~lastMes.is_user
    /\ orderedNames # <<>>
    /\ \E k \in 1..Len(masterNames) :
          /\ InExcludeList(masterNames[k])
          /\ Presence(masterNames[k]).count > 0
          /\ ~Contains(orderedNames, masterNames[k])

(***************************************************************************)
(* The span scanner applied to every text over a small alphabet.           *)
(***************************************************************************)
\* the characters of the texts: a word character, a space, the two tokens
SpanChars == {"a", " ", "\"", "*"}

SpanTexts == UNION {[1..n -> SpanChars] : n \in 0..MaxSpanLen}

InitSpans ==
    /\ \E text \in SpanTexts : lastMes = [mes |-> text, is_user |-> FALSE]
    /\ masterNames = <<"a">>
    /\ csMembers = <<>>
    /\ csExclude = <<>>
    /\ orderedNames = <<>>
    /\ rpc = "call"
    /\ order = <<>>
    /\ cast = {}
    /\ exprWrapper = TRUE
    /\ numLeft = -1
    /\ numRight = -1
    /\ InitApp

SpecSpans == InitSpans /\ [][NextResolve]_vars

\* the spans lie in [0, len], none ends before it starts, and each ends at or
\* before the start of the next
Ascending(spans, len) ==
    /\ \A k \in 1..Len(spans) :
          0 <= spans[k].start /\ spans[k].start <= spans[k].end /\ spans[k].end <= len
    /\ \A k \in 1..(Len(spans) - 1) : spans[k].end <= spans[k + 1].start

\* the spans that hold the index q
Holding(spans, q) == {k \in 1..Len(spans) : spans[k].start <= q /\ q < spans[k].end}

\* every index of the text is in exactly one span of the two lists
CoveredOnce(len, brackets, plain) ==
    \A q \in 0..(len - 1) :
        Cardinality(Holding(brackets, q)) + Cardinality(Holding(plain, q)) = 1

\* C12: for every text the spans of getNonBracketSpans are pairwise disjoint
\* and ascending, so are the spans of parseBracketSpans, and the two lists
\* together cover every index of the text exactly once.
C12_SpansPartition ==
    rpc = "done" =>
        /\ Ascending(getNonBracketSpans(lastMes.mes), Len(lastMes.mes))
        /\ Ascending(parseBracketSpans(lastMes.mes), Len(lastMes.mes))
        /\ CoveredOnce(Len(lastMes.mes), parseBracketSpans(lastMes.mes),
                       getNonBracketSpans(lastMes.mes))

\* C12 witness: a text with a closed span, an unclosed span, and plain text
\* before each of them
C12_Witness ==
    /\ rpc = "done"
    /\ lastMes.mes = <<"a", "\"", "\"", "a", "*">>
    /\ Len(parseBracketSpans(lastMes.mes)) = 2
    /\ Len(getNonBracketSpans(lastMes.mes)) = 2
    /\ orderedNames = <<"a">>

(***************************************************************************)
(* RosterEngine: updateMembers.  An activation of updateMembers is a       *)
(* record m of the roster and of the activation's locals; it runs from one *)
(* await to the next.  m.pc names the await it is suspended at, "done"     *)
(* after its exit.  settings.numLeft and settings.numRight are read live.  *)
(***************************************************************************)
\* array.splice(i, 1) for i = array.indexOf(x) given as a 1-based position,
\* 0 when x is absent: the source's index -1 removes the last element
SpliceOut(s, i) ==
    IF s = <<>> THEN s
    ELSE IF i = 0 THEN SubSeq(s, 1, Len(s) - 1)
    ELSE RemoveAt(s, i)

\* array.filter(it => other.indexOf(it) == -1)
NotIn(s, other) == SelectSeq(s, LAMBDA x : ~Contains(other, x))

\* (left.length < numLeft || numLeft == -1) &&
\* (left.length <= right.length || right.length >= numRight)
CanLeft(m) ==
    /\ Len(m.left) < numLeft \/ numLeft = -1
    /\ Len(m.left) <= Len(m.right) \/ Len(m.right) >= numRight

\* right.length < numRight || numRight == -1
CanRight(m) == Len(m.right) < numRight \/ numRight = -1

\* mutant of Place: the first name is not given the current slot
Place_NoCurrent(m, name) ==
    IF CanLeft(m) THEN [m EXCEPT !.left = Append(@, name)]
    ELSE IF CanRight(m) THEN [m EXCEPT !.right = Append(@, name)]
    ELSE m

\* if (!current) current = name; else if (...) left.push(name);
\* else if (...) right.push(name)
Place(m, name) ==
    IF m.current = Null THEN [m EXCEPT !.current = name]
    ELSE IF CanLeft(m) THEN [m EXCEPT !.left = Append(@, name)]
    ELSE IF CanRight(m) THEN [m EXCEPT !.right = Append(@, name)]
    ELSE m

\* busy = false after the try block
Exit(m) == [m EXCEPT !.busy = FALSE, !.pc = "done"]

\* mutant of Abort: the catch block leaves without releasing busy
Abort_Held(m) == [m EXCEPT !.pc = "done", !.aborted = TRUE]

\* catch (ex) { console.error(...) }, then busy = false
Abort(m) == [m EXCEPT !.busy = FALSE, !.pc = "done", !.aborted = TRUE]

\* mutant of Queue: no name is queued for the backfill
Queue_None(m) == <<>>

\* nameList.filter(it => left.indexOf(it) == -1 && right.indexOf(it) == -1 && it != current)
Queue(m) ==
    SelectSeq(m.nameList,
              LAMBDA x : ~Contains(m.left, x) /\ ~Contains(m.right, x) /\ x # m.current)

\* the condition of the backfill loop besides queue.length > 0
BackfillRoom(m) ==
    \/ numLeft = -1
    \/ numRight = -1
    \/ Len(m.left) < numLeft
    \/ Len(m.right) < numRight
    \/ m.current = Null

\* mutant of BackfillLoop: the loop body runs once at most
BackfillLoop_Once(m, queue) ==
    IF queue # <<>> /\ BackfillRoom(m) THEN Place(m, queue[Len(queue)]) ELSE m

RECURSIVE BackfillLoop(_, _)
\* while (queue.length > 0 && (...)) { const name = queue.pop(); ... }
BackfillLoop(m, queue) ==
    IF queue # <<>> /\ BackfillRoom(m)
    THEN BackfillLoop(Place(m, queue[Len(queue)]), SubSeq(queue, 1, Len(queue) - 1))
    ELSE m

\* the backfill of the free slots, then the exit
Backfill(m) == Exit(BackfillLoop(m, Queue(m)))

\* the first purgatory name can be placed
CanPlace(m) == m.current = Null \/ CanLeft(m) \/ CanRight(m)

\* m with the first purgatory name taken off the list
NextPurgatory(m) == [m EXCEPT !.purgatory = Tail(@)]

RECURSIVE RunPurgatory(_)
\* for (const name of purgatory): the name is placed, or its wrapper is
\* animated out (await delay) when no slot is free
RunPurgatory(m) ==
    IF m.purgatory = <<>> THEN Backfill(m)
    ELSE IF CanPlace(m) THEN RunPurgatory(Place(NextPurgatory(m), Head(m.purgatory)))
    ELSE IF Contains(m.imgs, Head(m.purgatory))
    THEN [NextPurgatory(m) EXCEPT !.pc = "evict", !.fx = TRUE]
    ELSE RunPurgatory(NextPurgatory(m))

\* nameList.push(name), the placement and imgs.push(wrap) of one added name
PushAdded(m, name) ==
    Place([m EXCEPT !.nameList = Append(@, name),
                    !.imgs = Append(@, name),
                    !.added = Tail(@),
                    !.fx = TRUE,
                    !.pc = "lookup"],
          name)

\* for (const name of added), up to await findImage(...)
RunAdded(m) ==
    IF m.added = <<>> THEN RunPurgatory(m) ELSE PushAdded(m, Head(m.added))

\* mutant of PopLeft: the left side is not shrunk to its capacity
PopLeft_Skip(m) == m

RECURSIVE PopLeft(_)
\* while (numLeft != -1 && left.length > numLeft) purgatory.push(left.pop())
PopLeft(m) ==
    IF numLeft # -1 /\ Len(m.left) > numLeft
    THEN PopLeft([m EXCEPT !.purgatory = Append(@, m.left[Len(m.left)]),
                           !.left = SubSeq(@, 1, Len(@) - 1)])
    ELSE m

RECURSIVE PopRight(_)
\* while (numRight != -1 && right.length > numRight) purgatory.push(right.pop())
PopRight(m) ==
    IF numRight # -1 /\ Len(m.right) > numRight
    THEN PopRight([m EXCEPT !.purgatory = Append(@, m.right[Len(m.right)]),
                            !.right = SubSeq(@, 1, Len(@) - 1)])
    ELSE m

\* const purgatory = []; the two shrink loops; then the added names
RunShrink(m) == RunAdded(PopRight(PopLeft([m EXCEPT !.purgatory = <<>>])))

\* mutant of Unassign: a removed name stays on its side
Unassign_Keep(m, name) == m

\* the removed name leaves left, else right, else current is cleared
Unassign(m, name) ==
    IF Contains(m.left, name)
    THEN [m EXCEPT !.left = RemoveAt(@, IndexOf(@, name))]
    ELSE IF Contains(m.right, name)
    THEN [m EXCEPT !.right = RemoveAt(@, IndexOf(@, name))]
    ELSE [m EXCEPT !.current = Null]

\* nameList.splice(nameList.indexOf(name), 1); imgs.splice(idx, 1)
Spliced(m, name) ==
    [m EXCEPT !.nameList = SpliceOut(@, IndexOf(@, name)),
              !.imgs = SpliceOut(@, IndexOf(@, name)),
              !.removed = Tail(@)]

\* img.classList.add('stge--exit'); await delay(...): img is undefined, and
\* the call throws, when imgs was empty
AnimateOut(m, hasImg) ==
    IF hasImg THEN [m EXCEPT !.pc = "exit", !.fx = TRUE] ELSE Abort(m)

\* for (const name of removed), up to await delay(...)
RunRemoved(m) ==
    IF m.removed = <<>> THEN RunShrink(m)
    ELSE AnimateOut(Unassign(Spliced(m, Head(m.removed)), Head(m.removed)),
                    m.imgs # <<>>)

\* mutant of AcquireBusy: the flag is not raised
AcquireBusy_Never == FALSE

\* busy = true
AcquireBusy == TRUE

\* the roster and the history of the latest call, with the locals loc
Activation(loc) ==
    [nameList |-> nameList, left |-> left, right |-> right, current |-> current,
     imgs |-> imgs, busy |-> busy, fx |-> fx, aborted |-> aborted,
     pc |-> loc.pc, removed |-> loc.removed, added |-> loc.added,
     purgatory |-> loc.purgatory]

\* the locals of a call with the desired names ns, at its entry
EntryLocals(ns) ==
    [pc |-> "entry", removed |-> NotIn(nameList, ns), added |-> NotIn(ns, nameList),
     purgatory |-> <<>>]

\* updateMembers() from its entry to its first await, or to its exit
Entry(ns) ==
    IF busy THEN [Activation(EntryLocals(ns)) EXCEPT !.pc = "done"]
    ELSE RunRemoved([Activation(EntryLocals(ns)) EXCEPT
                        !.busy = AcquireBusy, !.fx = FALSE, !.aborted = FALSE])

\* the locals of the activation m
Locals(m) ==
    [pc |-> m.pc, removed |-> m.removed, added |-> m.added, purgatory |-> m.purgatory]

\* the activations after activation k (0: a new one) ran up to m
Suspended(m, k) ==
    IF m.pc = "done"
    THEN IF k = 0 THEN bodies ELSE RemoveAt(bodies, k)
    ELSE IF k = 0 THEN Append(bodies, Locals(m)) ELSE [bodies EXCEPT ![k] = Locals(m)]

\* the state after activation k ran up to m; its loop, one of the others + 1
\* loops outside updateMembers before, is outside updateMembers again once m
\* is done.  The history of the call is kept while it is clean.
Commit(m, k, others) ==
    /\ nameList' = m.nameList
    /\ left' = m.left
    /\ right' = m.right
    /\ current' = m.current
    /\ imgs' = m.imgs
    /\ busy' = m.busy
    /\ fx' = (clean' /\ m.fx)
    /\ aborted' = (clean' /\ m.aborted)
    /\ bodies' = Suspended(m, k)
    /\ sleeping' = IF m.pc = "done" THEN others + 1 ELSE others

(***************************************************************************)
(* debounceAsync, restart, start, end, and the messageRendered loops.      *)
(***************************************************************************)
\* mutant of ClearTimeout: the armed timeout is left armed
ClearTimeout_Keep(armed, t) == armed

\* clearTimeout(timer)
ClearTimeout(armed, t) == armed \ {t}

\* the debounced function returned by debounceAsync: one call of restart()
Debounced ==
    /\ Len(callLog) < MaxCalls
    /\ timers' = ClearTimeout(timers, timer) \cup {Len(callLog) + 1}
    /\ timer' = Len(callLog) + 1
    /\ debouncePromise' = IF debouncePromise = 0 THEN Len(callLog) + 1 ELSE debouncePromise
    /\ debounceResolver' = IF debouncePromise = 0 THEN Len(callLog) + 1 ELSE debounceResolver
    /\ callLog' = Append(callLog, [promise |-> debouncePromise', inWindow |-> timer \in timers])
    /\ UNCHANGED <<execLog, settled>>

\* a handler that calls restart(): chatChanged, the input of the extensions
RestartRequested ==
    /\ Debounced
    /\ UNCHANGED <<resolveVars, envVars, isEnabled, capVars, restarting, delaying,
                   sleeping, bodies, rosterVars, busy, engineVars, endCalls,
                   startCalls, callVars, dirty>>
    /\ lastTick' = "none"

\* the click handler of #stge--isEnabled
IsEnabledClicked ==
    /\ isEnabled' = ~isEnabled
    /\ Debounced
    /\ UNCHANGED <<resolveVars, envVars, capVars, restarting, delaying,
                   sleeping, bodies, rosterVars, busy, engineVars, endCalls,
                   startCalls, callVars, dirty>>
    /\ lastTick' = "none"

\* the history of the latest call is dropped
Forget ==
    /\ names' = <<>>
    /\ clean' = FALSE
    /\ fromEmpty' = FALSE
    /\ aborted' = FALSE
    /\ fx' = FALSE

\* mutant of PopAll: the wrappers stay in imgs
PopAll_None(s) == s

\* while (imgs.length > 0) imgs.pop()
PopAll(s) == <<>>

\* end(): the roster is cleared; the last statement throws when
\* #expression-wrapper is missing
End ==
    /\ current' = Null
    /\ nameList' = <<>>
    /\ left' = <<>>
    /\ right' = <<>>
    /\ imgs' = PopAll(imgs)
    /\ root' = Null
    /\ groupId' = Null
    /\ chatId' = Null
    /\ endCalls' = endCalls + 1
    /\ dirty' = busy
    /\ Forget
    /\ UNCHANGED capsHeld

\* mutant of RestartGuard: the wrapped function does not test restarting
RestartGuard_Off(r) == FALSE

\* if (restarting) return;
RestartGuard(r) == r

\* the wrapped function of restart up to await delay(...)
RestartBody ==
    IF RestartGuard(restarting)
    THEN UNCHANGED <<restarting, delaying, rosterVars, engineVars, endCalls, dirty,
                     callVars>>
    ELSE /\ restarting' = TRUE
         /\ End
         /\ delaying' = IF exprWrapper THEN delaying + 1 ELSE delaying

\* the callback of setTimeout: debounceResolver(func.apply(this, args));
\* debouncePromise = null.  Resolving a resolved promise changes nothing.
TimerFired(t) ==
    /\ t \in timers
    /\ timers' = timers \ {t}
    /\ execLog' = Append(execLog, [timer |-> t, promise |-> debounceResolver])
    /\ settled' = IF settled[debounceResolver] = 0
                  THEN [settled EXCEPT ![debounceResolver] = Len(execLog) + 1]
                  ELSE settled
    /\ debouncePromise' = 0
    /\ RestartBody
    /\ UNCHANGED <<resolveVars, envVars, isEnabled, capVars, timer, debounceResolver,
                   callLog, sleeping, bodies, busy, startCalls>>
    /\ lastTick' = "none"

\* the desired name lists of the model: the names array that updateMembers
\* computes from csettings.members, the group or the character.  Neither
\* names.push(...csettings.members.filter(...)) nor the push of the group's
\* members drops a name that its own input holds twice: Dana is the name of
\* two members of a group, or is written twice in csettings.members
NameLists ==
    {<<>>, <<"Alice">>, <<"Alice", "Bob">>, <<"Alice", "Bob", "Carol">>,
     <<"Bob", "Carol">>, <<"Carol">>, <<"Carol", "Bob", "Alice">>,
     <<"Dana">>, <<"Dana", "Dana">>}

\* those of them the chat can yield
DesiredLists == {s \in NameLists : \A i \in 1..Len(s) : s[i] \in cast}

\* one iteration of the loop of messageRendered up to its first await, made
\* by a loop that leaves others loops outside updateMembers
Iterate(ns, others) ==
    IF busy
    THEN /\ lastTick' = "skipped"
         /\ sleeping' = others + 1
         /\ UNCHANGED <<rosterVars, busy, bodies, callVars>>
    ELSE /\ lastTick' = IF clean /\ ~aborted /\ ns = names THEN "repeated" ELSE "ran"
         /\ names' = ns
         /\ clean' = TRUE
         /\ capsHeld' = TRUE
         /\ fromEmpty' = (nameList = <<>> /\ left = <<>> /\ right = <<>>
                            /\ current = Null /\ imgs = <<>>)
         /\ Commit(Entry(ns), 0, others)

\* start(): nothing when disabled; it throws when #expression-wrapper is
\* missing; else messageRendered() runs its first iteration
Start ==
    IF ~isEnabled
    THEN /\ restarting' = FALSE
         /\ lastTick' = "none"
         /\ UNCHANGED <<sleeping, bodies, rosterVars, busy, engineVars, callVars>>
    ELSE IF ~exprWrapper
    THEN /\ lastTick' = "none"
         /\ UNCHANGED <<restarting, sleeping, bodies, rosterVars, busy, engineVars,
                        callVars>>
    ELSE /\ restarting' = FALSE
         /\ root' = "div"
         /\ groupId' = "group"
         /\ chatId' = "chat"
         /\ \E ns \in DesiredLists : Iterate(ns, sleeping)

\* the wrapped function of restart after its delay: await start();
\* restarting = false
RestartDelayElapsed ==
    /\ delaying > 0
    /\ delaying' = delaying - 1
    /\ startCalls' = startCalls + 1
    /\ Start
    /\ UNCHANGED <<resolveVars, envVars, isEnabled, capVars, debounceVars, debounceLogs,
                   endCalls, dirty>>

\* mutant of LoopCondition: the loop goes on whatever the setting
LoopCondition_Always(enabled) == TRUE

\* while (settings.isEnabled && (groupId || true))
LoopCondition(enabled) == enabled

\* a loop of messageRendered wakes from its delay: it ends when the
\* extension is disabled, else it makes its next iteration
LoopWakes ==
    /\ sleeping > 0
    /\ IF ~LoopCondition(isEnabled)
       THEN /\ sleeping' = sleeping - 1
            /\ lastTick' = "ended"
            /\ UNCHANGED <<bodies, rosterVars, busy, callVars>>
       ELSE \E ns \in DesiredLists : Iterate(ns, sleeping - 1)
    /\ UNCHANGED <<resolveVars, envVars, isEnabled, capVars, debounceVars, debounceLogs,
                   restarting, delaying, engineVars, endCalls, startCalls, dirty>>

\* what the steps of an activation of updateMembers leave alone
ActivationFrame ==
    UNCHANGED <<resolveVars, envVars, isEnabled, capVars, debounceVars, debounceLogs,
                restarting, delaying, engineVars, endCalls, startCalls,
                names, clean, capsHeld, fromEmpty, dirty>>
    /\ lastTick' = "none"

\* await delay(...) of the removed loop is over: img.remove(), the next name
RemovalDelayDone(k) ==
    /\ k \in 1..Len(bodies)
    /\ bodies[k].pc = "exit"
    /\ ActivationFrame
    /\ Commit(RunRemoved(Activation(bodies[k])), k, sleeping)

\* await findImage(...) of the added loop is over: it returned, or it threw
LookupDone(k, ok) ==
    /\ k \in 1..Len(bodies)
    /\ bodies[k].pc = "lookup"
    /\ ActivationFrame
    /\ Commit(IF ok THEN RunAdded(Activation(bodies[k])) ELSE Abort(Activation(bodies[k])),
              k, sleeping)

\* await delay(...) of the purgatory loop is over: wrap.remove(), the next name
EvictionDelayDone(k) ==
    /\ k \in 1..Len(bodies)
    /\ bodies[k].pc = "evict"
    /\ ActivationFrame
    /\ Commit(RunPurgatory(Activation(bodies[k])), k, sleeping)

\* what the inputs of the capacities leave alone
CapacityFrame ==
    /\ UNCHANGED <<resolveVars, envVars, isEnabled, debounceVars, debounceLogs,
                   restarting, delaying, sleeping, bodies, rosterVars, busy,
                   engineVars, endCalls, startCalls, dirty>>
    /\ lastTick' = "none"

\* the input handler of #stge--numLeft
NumLeftInput(v) ==
    /\ v # numLeft
    /\ numLeft' = v
    /\ Forget
    /\ capsHeld' = FALSE
    /\ UNCHANGED numRight
    /\ CapacityFrame

\* the input handler of #stge--numRight
NumRightInput(v) ==
    /\ v # numRight
    /\ numRight' = v
    /\ Forget
    /\ capsHeld' = FALSE
    /\ UNCHANGED numLeft
    /\ CapacityFrame

(***************************************************************************)
(* The debounced restart alone: no chat, so every desired list is empty.   *)
(***************************************************************************)
InitRestart ==
    /\ InitApp
    /\ ResolverOff
    /\ cast = {}
    /\ exprWrapper \in BOOLEAN
    /\ numLeft = -1
    /\ numRight = -1

NextRestart ==
    \/ RestartRequested
    \/ IsEnabledClicked
    \/ \E t \in 1..MaxCalls : TimerFired(t)
    \/ RestartDelayElapsed
    \/ LoopWakes

SpecRestart == InitRestart /\ [][NextRestart]_vars

\* the same, where the timeouts fire, the delays elapse and the loops wake;
\* the handlers run only when the user acts
SpecTriggers ==
    /\ InitRestart
    /\ [][NextRestart]_vars
    /\ WF_vars(\E t \in 1..MaxCalls : TimerFired(t))
    /\ WF_vars(RestartDelayElapsed)
    /\ WF_vars(LoopWakes)

(***************************************************************************)
(* The roster engine driven by the loops, the restarts and the capacity    *)
(* inputs, with the extension left enabled.                                *)
(***************************************************************************)
Capacities == -1..MaxCap

InitRoster ==
    /\ InitApp
    /\ ResolverOff
    /\ cast = {"Alice", "Bob", "Carol"}
    /\ exprWrapper = TRUE
    /\ numLeft \in Capacities
    /\ numRight \in Capacities

NextRoster ==
    \/ Len(callLog) < MaxRestarts /\ RestartRequested
    \/ \E t \in 1..MaxCalls : TimerFired(t)
    \/ RestartDelayElapsed
    \/ LoopWakes
    \/ \E k \in 1..MaxCalls : RemovalDelayDone(k)
    \/ \E k \in 1..MaxCalls, ok \in BOOLEAN : LookupDone(k, ok)
    \/ \E k \in 1..MaxCalls : EvictionDelayDone(k)
    \/ \E v \in Capacities : NumLeftInput(v)
    \/ \E v \in Capacities : NumRightInput(v)

SpecRoster == InitRoster /\ [][NextRoster]_vars

(***************************************************************************)
(* The roster engine in a chat whose desired names can hold one name       *)
(* twice, with unlimited sides and the extension left enabled.             *)
(***************************************************************************)
InitTwins ==
    /\ InitApp
    /\ ResolverOff
    /\ cast = {"Dana"}
    /\ exprWrapper = TRUE
    /\ numLeft = -1
    /\ numRight = -1

NextTwins ==
    \/ RestartRequested
    \/ \E t \in 1..MaxCalls : TimerFired(t)
    \/ RestartDelayElapsed
    \/ LoopWakes
    \/ \E k \in 1..MaxCalls : RemovalDelayDone(k)
    \/ \E k \in 1..MaxCalls, ok \in BOOLEAN : LookupDone(k, ok)

SpecTwins == InitTwins /\ [][NextTwins]_vars

(***************************************************************************)
(* The pass of messageRendered over the wrappers, after updateMembers and  *)
(* the resolver have returned, on the rosters that calls of updateMembers  *)
(* build from the empty roster.                                            *)
(***************************************************************************)
\* the 4 of orderedNames.slice(0, 4)
MaxSlots == 4

\* const slots = orderedNames.slice(0, 4)
Slots(ordered) ==
    Slice(ordered, 0, IF Len(ordered) > MaxSlots THEN MaxSlots ELSE Len(ordered))

\* slots.indexOf(name), 0-based, -1 when absent
SlotIndex(slots, name) == IndexOf(slots, name) - 1

\* one turn of for (const wrapper of imgs): setProperty('--order',
\* String(slotIndex)) when slotIndex >= 0, removeProperty('--order') else
OrderOf(slots, name) ==
    IF SlotIndex(slots, name) >= 0 THEN ToString(SlotIndex(slots, name)) ELSE Null

\* the pass over all the wrappers
RenderPass(wrappers, slots) ==
    [k \in 1..Len(wrappers) |-> OrderOf(slots, wrappers[k])]

\* the pass of one iteration, the resolver's result at hand
Render ==
    /\ rpc = "done"
    /\ rpc' = "shown"
    /\ order' = RenderPass(imgs, Slots(orderedNames))
    /\ UNCHANGED <<lastMes, masterNames, csMembers, csExclude, orderedNames>>
    /\ UNCHANGED <<envVars, isEnabled, capVars, debounceVars, debounceLogs,
                   restarting, delaying, sleeping, bodies, rosterVars, busy, engineVars,
                   endCalls, startCalls, lastTick, callVars, dirty>>

\* the desired name lists of the rosters of the pass
RenderLists ==
    {<<>>, <<"Alice">>, <<"Alice", "Bob">>, <<"Alice", "Bob", "Carol">>,
     <<"Alice", "Bob", "Carol", "Dana">>, <<"Alice", "Bob", "Carol", "Dana", "Eve">>,
     <<"Dana", "Dana">>}

RECURSIVE AllAdded(_)
\* the added loop of updateMembers run to its end, every lookup settled
AllAdded(m) == IF m.added = <<>> THEN m ELSE AllAdded(PushAdded(m, Head(m.added)))

\* the roster a call of updateMembers with the names ns makes of the empty one
RosterOf(ns) ==
    AllAdded([nameList |-> <<>>, left |-> <<>>, right |-> <<>>, current |-> Null,
              imgs |-> <<>>, busy |-> TRUE, fx |-> FALSE, aborted |-> FALSE,
              pc |-> "entry", removed |-> <<>>, added |-> ns, purgatory |-> <<>>])

\* the results the resolver can return for the master list ns: names of
\* distinct positions of ns, in any order
ResultsFor(ns) ==
    UNION {{[k \in 1..n |-> ns[p[k]]] :
               p \in {q \in [1..n -> 1..Len(ns)] :
                          \A i, j \in 1..n : q[i] = q[j] => i = j}} :
           n \in 0..Len(ns)}

\* the --order values the wrappers can hold before the pass: none, or the
\* last slot from an earlier pass
StaleOrders == {Null, ToString(MaxSlots - 1)}

InitRender ==
    /\ AppAtLoad
    /\ cast = {}
    /\ exprWrapper = TRUE
    /\ numLeft = -1
    /\ numRight = -1
    /\ \E ns \in RenderLists :
          /\ nameList = RosterOf(ns).nameList
          /\ left = RosterOf(ns).left
          /\ right = RosterOf(ns).right
          /\ current = RosterOf(ns).current
          /\ imgs = RosterOf(ns).imgs
    /\ lastMes = [mes |-> <<>>, is_user |-> FALSE]
    /\ masterNames = nameList
    /\ csMembers = <<>>
    /\ csExclude = <<>>
    /\ orderedNames \in ResultsFor(nameList)
    /\ rpc = "done"
    /\ \E o \in StaleOrders : order = [k \in 1..Len(imgs) |-> o]

NextRender == Render

SpecRender == InitRender /\ [][NextRender]_vars

(***************************************************************************)
(* The loops under restarts and clicks of the enable checkbox, in a chat   *)
(* of one character.  The timeouts fire, the delays elapse and the lookups *)
(* settle; the handlers run only when the user acts.                       *)
(***************************************************************************)
InitLoops ==
    /\ InitApp
    /\ ResolverOff
    /\ cast = {"Alice"}
    /\ exprWrapper = TRUE
    /\ numLeft = -1
    /\ numRight = -1

NextLoops ==
    \/ RestartRequested
    \/ IsEnabledClicked
    \/ \E t \in 1..MaxCalls : TimerFired(t)
    \/ RestartDelayElapsed
    \/ LoopWakes
    \/ \E k \in 1..MaxCalls : RemovalDelayDone(k)
    \/ \E k \in 1..MaxCalls, ok \in BOOLEAN : LookupDone(k, ok)

SpecLoops ==
    /\ InitLoops
    /\ [][NextLoops]_vars
    /\ WF_vars(\E t \in 1..MaxCalls : TimerFired(t))
    /\ WF_vars(RestartDelayElapsed)
    /\ WF_vars(LoopWakes)
    /\ WF_vars(\E k \in 1..MaxCalls : RemovalDelayDone(k))
    /\ WF_vars(\E k \in 1..MaxCalls, ok \in BOOLEAN : LookupDone(k, ok))

(***************************************************************************)
(* Properties of the debounced restart.                                    *)
(***************************************************************************)
\* the calls i..j are a burst: each but the first came while the timer armed
\* by the call before it had not fired, and no later call continues it
Burst(i, j) ==
    /\ i <= j
    /\ ~callLog[i].inWindow
    /\ \A k \in (i + 1)..j : callLog[k].inWindow
    /\ j = Len(callLog) \/ ~callLog[j + 1].inWindow

\* the executions of the wrapped function by the timers of the calls i..j
ExecutionsOf(i, j) == {e \in 1..Len(execLog) : execLog[e].timer \in i..j}

\* C1: debounce coalescing. The calls of a burst return the same promise; the
\* wrapped function is executed at most once for the burst, by the timer of
\* its last call, exactly once when that timer has fired, and the promise is
\* resolved with the result of that execution and of no other.
C1_DebounceCoalescing ==
    \A i, j \in 1..Len(callLog) :
        Burst(i, j) =>
            /\ \A k \in i..j : callLog[k].promise = callLog[i].promise
            /\ Cardinality(ExecutionsOf(i, j)) <= 1
            /\ \A e \in ExecutionsOf(i, j) :
                  execLog[e].timer = j /\ settled[callLog[i].promise] = e
            /\ j \notin timers => ExecutionsOf(i, j) # {}
            /\ ExecutionsOf(i, j) = {} => settled[callLog[i].promise] = 0

\* C1 witness: three calls in one burst, executed once by the timer of the third
C1_Witness ==
    /\ Len(callLog) = 3
    /\ Burst(1, 3)
    /\ Len(execLog) = 1
    /\ execLog[1].timer = 3
    /\ settled[callLog[1].promise] = 1

\* C2: at most one restart sequence is in progress: end() ran at most once
\* more often than start(), never less often, a sequence waits in its delay
\* only between its end() and its start(), and an execution of the wrapped
\* function while restarting is true calls neither end() nor start(), starts
\* no sequence and leaves the roster and the loops alone.
C2_SingleRestartSequence ==
    /\ [](/\ delaying <= 1
          /\ startCalls <= endCalls
          /\ endCalls <= startCalls + 1
          /\ delaying = 1 => endCalls = startCalls + 1
          /\ endCalls > startCalls => restarting)
    /\ [][(restarting /\ Len(execLog') > Len(execLog)) =>
            UNCHANGED <<endCalls, startCalls, delaying, restarting, rosterVars,
                        sleeping, bodies>>]_vars

\* C2 witness: the timer fired twice, the second time during the delay of the
\* sequence the first execution started
C2_Witness ==
    /\ Len(execLog) = 2
    /\ endCalls = 1
    /\ startCalls = 0
    /\ delaying = 1
    /\ restarting

(***************************************************************************)
(* Properties of the roster engine.                                        *)
(***************************************************************************)
\* the elements of a sequence
Range(s) == {s[i] : i \in 1..Len(s)}

\* a sequence without duplicates
NoDup(s) == \A i, j \in 1..Len(s) : i # j => s[i] # s[j]

\* a step that makes a loop iteration: a loop wakes, or start() begins one
IterationStep == LoopWakes \/ RestartDelayElapsed

\* C3: updateMembers is mutually exclusive. At most one activation is between
\* its entry and its exit, busy is true exactly then, and a loop iteration
\* that finds busy true leaves the roster, busy and the activation alone.
C3_UpdateMembersMutex ==
    /\ [](Len(bodies) <= 1 /\ (busy <=> Len(bodies) = 1))
    /\ [][(busy /\ IterationStep) => UNCHANGED <<rosterVars, busy, bodies>>]_vars

\* C3 witness: an iteration of one loop was skipped while the activation of
\* another loop is suspended
C3_Witness ==
    /\ lastTick = "skipped"
    /\ busy
    /\ Len(bodies) = 1
    /\ sleeping >= 1

\* left, right and current hold names of nameList, each name at most once
RosterInvariant ==
    /\ \A x \in Range(left) \cup Range(right) : Contains(nameList, x)
    /\ current # Null => Contains(nameList, current)
    /\ NoDup(left)
    /\ NoDup(right)
    /\ Range(left) \cap Range(right) = {}
    /\ current \notin Range(left) \cup Range(right)

\* C4: when no updateMembers call is running and no end() ran during a call
\* since the roster was last cleared, every name in left, in right and current
\* is in nameList, left and right are duplicate-free and disjoint, and current
\* is in neither.
C4_RosterInvariant == (~busy /\ ~dirty) => RosterInvariant

\* C4 witness: after removals and additions under finite capacities all three
\* names are in the roster, one of them on neither side
C4_Witness ==
    /\ ~busy
    /\ ~dirty
    /\ nameList = <<"Bob", "Carol", "Alice">>
    /\ current # Null
    /\ Len(left) + Len(right) = 1

\* C5: when updateMembers has returned and neither capacity was input since
\* the call was entered, left holds at most numLeft names unless numLeft is
\* -1, and right at most numRight names unless numRight is -1.
C5_CapacityInvariant ==
    (~busy /\ capsHeld) =>
        /\ numLeft = -1 \/ Len(left) <= numLeft
        /\ numRight = -1 \/ Len(right) <= numRight

\* C5 witness: a call on a roster of three names that was not empty returned
\* with the left side closed and a wrapper animated out or created
C5_Witness ==
    /\ ~busy
    /\ clean
    /\ ~fromEmpty
    /\ fx
    /\ numLeft = 0
    /\ numRight = 1
    /\ Len(nameList) = 3
    /\ right = <<"Carol">>

\* the latest call was entered on an empty roster with the desired names
\* Alice, Bob, Carol and the capacities 1 and 1, it added the three and returned
AddedThreeFromEmpty ==
    /\ ~busy
    /\ clean
    /\ fromEmpty
    /\ names = <<"Alice", "Bob", "Carol">>
    /\ nameList = <<"Alice", "Bob", "Carol">>
    /\ numLeft = 1
    /\ numRight = 1

\* C6: starting from an empty roster with numLeft = 1 and numRight = 1, a
\* refresh that adds Alice, Bob, Carol in that order ends with current = Alice,
\* left = [Bob] and right = [Carol].
C6_PlacementFromEmpty ==
    AddedThreeFromEmpty =>
        /\ current = "Alice"
        /\ left = <<"Bob">>
        /\ right = <<"Carol">>

\* C6 as stated: left = [Alice], right = [Bob], and Carol on neither side
C6_Original ==
    AddedThreeFromEmpty =>
        /\ left = <<"Alice">>
        /\ right = <<"Bob">>
        /\ ~Contains(left, "Carol")
        /\ ~Contains(right, "Carol")

\* C6 witness: such a refresh returned
C6_Witness == AddedThreeFromEmpty /\ current = "Alice" /\ imgs = nameList

\* C7: refresh is idempotent. When a call that completed is followed, with no
\* end() and no capacity input in between, by a call with the same desired
\* names, the second call returns at once, leaves nameList, left, right,
\* current and imgs unchanged, and creates, animates out and removes no wrapper.
C7_RefreshIdempotent ==
    [][(~busy /\ clean /\ ~aborted /\ IterationStep /\ clean' /\ names' = names) =>
          /\ UNCHANGED <<rosterVars, busy, bodies>>
          /\ ~fx']_vars

\* C7 witness: a call was repeated on a roster of three names with both sides
\* in use
C7_Witness ==
    /\ lastTick = "repeated"
    /\ ~busy
    /\ clean
    /\ Len(nameList) = 3
    /\ left # <<>>
    /\ right # <<>>

(***************************************************************************)
(* Properties of the engine's stop and start.                              *)
(***************************************************************************)
\* end() has returned and the start() of its restart sequence is not called
\* yet: the sequence is suspended at its await delay(...)
Stopped == delaying > 0

\* C14: a stopped engine produces no further slot assignments: from the
\* return of end() to the next call of start(), nameList, left and right stay
\* empty and current stays unset.
C14_StoppedEngineIdle ==
    Stopped =>
        /\ nameList = <<>>
        /\ left = <<>>
        /\ right = <<>>
        /\ current = Null

\* the messageRendered loops that have not ended
Loops == sleeping + Len(bodies)

\* C15: every messageRendered loop launched by a start() terminates after the
\* following end(), also when isEnabled stays true: once the restarts are
\* over, no loop but the one of the last start() is left.
C15_LoopsEndAfterStop == ([]isEnabled) => <>[](Loops <= 1)

\* C16: disabling ends the loop. While isEnabled is false, a loop that wakes
\* from its delay exits at its loop condition without touching the roster,
\* and start() returns without creating the root element or launching a loop;
\* if isEnabled stays false, every loop has exited in the end.
C16_DisablingEndsLoops ==
    /\ [][(~isEnabled /\ LoopWakes) =>
            (sleeping' = sleeping - 1 /\ UNCHANGED <<bodies, rosterVars, busy>>)]_vars
    /\ [][(~isEnabled /\ RestartDelayElapsed) =>
            UNCHANGED <<engineVars, sleeping, bodies, rosterVars, busy>>]_vars
    /\ (<>[](~isEnabled)) => <>[](Loops = 0)

\* C16 witness: the loop of the first start() found the extension disabled
\* and ended, after the start() of the second restart had returned without a
\* root element
C16_Witness ==
    /\ ~isEnabled
    /\ lastTick = "ended"
    /\ Loops = 0
    /\ startCalls = 2
    /\ ~restarting
    /\ root = Null

\* C17: immediately after end() the roster is entirely cleared: nameList, left
\* and right are empty, current is unset, imgs is empty, and groupId, chatId
\* and root are null.
C17_EndClearsRoster ==
    [][endCalls' > endCalls =>
          /\ nameList' = <<>>
          /\ left' = <<>>
          /\ right' = <<>>
          /\ current' = Null
          /\ imgs' = <<>>
          /\ groupId' = Null
          /\ chatId' = Null
          /\ root' = Null]_vars

\* C17 witness: the second end() has cleared a roster that the updateMembers
\* call still suspended had filled after the first start()
C17_Witness ==
    /\ Stopped
    /\ endCalls = 2
    /\ busy
    /\ dirty
    /\ lastTick = "none"
    /\ nameList = <<>>
    /\ imgs = <<>>
    /\ current = Null
    /\ root = Null

\* the wrappers of imgs that carry the name x
WrappersOf(x) == {k \in 1..Len(imgs) : imgs[k] = x}

\* C19: each tracked name has exactly one visual handle: whenever busy is
\* false, imgs holds exactly one wrapper for every name in nameList and no
\* wrapper for a name that is not in nameList.
C19_OneWrapperPerName ==
    ~busy =>
        /\ \A k \in 1..Len(nameList) : Cardinality(WrappersOf(nameList[k])) = 1
        /\ \A k \in 1..Len(imgs) : Contains(nameList, imgs[k])

(***************************************************************************)
(* Properties of the image lookup of an added name.                        *)
(***************************************************************************)
\* activation k of updateMembers is suspended at await findImage(...) and
\* the step ends it
EndsAtLookup(k) == bodies[k].pc = "lookup" /\ bodies' = RemoveAt(bodies, k)

\* C20: slot assignment is independent of lookup success: a call of
\* updateMembers that ends when the lookup of an added name settles, whether
\* the lookup failed or found nothing, has appended that name, has no added
\* name left to process, and returns with busy cleared.
C20_LookupFailureHarmless ==
    [][\A k \in 1..Len(bodies) :
          EndsAtLookup(k) =>
              /\ bodies[k].added = <<>>
              /\ ~busy']_vars

(***************************************************************************)
(* Properties of the pass over the wrappers.                               *)
(***************************************************************************)
\* the wrappers that hold a slot index
Indexed == {k \in 1..Len(order) : order[k] # Null}

\* the first min(4, n) names of the resolver's result
FirstFour == SubSeq(orderedNames, 1, Least({MaxSlots, Len(orderedNames)}))

\* C18: after the pass of an iteration the wrappers with a slot index show
\* the first min(4, n) names of the resolver's result in its order: at most
\* 4 wrappers hold an index, the indices are pairwise distinct values in
\* 0..3, the wrapper with index i carries the i-th of those names, and no
\* wrapper of another name holds an index.
C18_SlotsAreFirstFour ==
    rpc = "shown" =>
        /\ Len(order) = Len(imgs)
        /\ Cardinality(Indexed) <= MaxSlots
        /\ \A k \in Indexed :
              \E i \in 0..(MaxSlots - 1) :
                  /\ order[k] = ToString(i)
                  /\ i < Len(FirstFour)
                  /\ FirstFour[i + 1] = imgs[k]
        /\ \A j, k \in Indexed : order[j] = order[k] => j = k
        /\ \A k \in 1..Len(imgs) : ~Contains(FirstFour, imgs[k]) => order[k] = Null

(***************************************************************************)
(* Properties of the window of debounceAsync.                              *)
(***************************************************************************)
\* the promise returned by the latest call is pending
LatestPending == callLog # <<>> => settled[callLog[Len(callLog)].promise] = 0

\* the step is a call of the debounced function
CallStep == Len(callLog') = Len(callLog) + 1

\* the step is an execution of the wrapped function
ExecStep == Len(execLog') = Len(execLog) + 1

\* C21: pure debounce. Every call cancels the pending timer and arms a new
\* one, so the only armed timer is that of the latest call; a call that
\* arrives while the timer of the call before it is armed leaves the wrapped
\* function unexecuted, and while a timer is armed the shared promise of the
\* latest call is pending; the wrapped function is executed only by the
\* timer of the latest call, and that timer does fire once no call cancels
\* it.
C21_PureDebounce ==
    /\ [](/\ timers \subseteq {Len(callLog)}
          /\ timers # {} => (timer = Len(callLog) /\ LatestPending))
    /\ [][CallStep => (/\ Len(callLog') \in timers'
                       /\ timers' = {Len(callLog')}
                       /\ execLog' = execLog
                       /\ settled' = settled)]_vars
    /\ [][ExecStep => (/\ timers = {Len(callLog)}
                       /\ timers' = {}
                       /\ execLog'[Len(execLog')].timer = Len(callLog)
                       /\ callLog' = callLog)]_vars
    /\ \A t \in 1..MaxCalls : (t \in timers) ~> (t \notin timers)

\* C21 witness: three calls, each within the window of the one before it,
\* have left the wrapped function unexecuted and their promise pending
C21_Witness ==
    /\ Len(callLog) = 3
    /\ callLog[2].inWindow
    /\ callLog[3].inWindow
    /\ execLog = <<>>
    /\ timers = {3}
    /\ callLog[3].promise = callLog[1].promise
    /\ settled[callLog[1].promise] = 0

(***************************************************************************)
(* Properties of the resolver on the texts of the source's examples.       *)
(***************************************************************************)
\* the text "(Alice) Bob Alice"
ParenthesisedText == Flatten(<<"(", "Alice", ")", " ", "Bob", " ", "Alice">>)

\* the resolver has returned for the second sanity test of the source
ParenthesisedCall ==
    /\ rpc = "done"
    /\ lastMes = [mes |-> ParenthesisedText, is_user |-> FALSE]
    /\ masterNames = <<"Alice", "Bob", "Carol">>
    /\ csMembers = <<>>
    /\ csExclude = <<>>

\* C22: for the non-user message "(Alice) Bob Alice" with the master list
\* [Alice, Bob, Carol] the parenthesised Alice is ignored: Alice is counted
\* once and Bob once, both are present (and Carol is not), and the one with
\* the earlier first index comes first.
C22_ParenthesisedIgnored ==
    ParenthesisedCall =>
        /\ Presence("Alice").count = 1
        /\ Presence("Bob").count = 1
        /\ orderedNames = IF Presence("Alice").firstIndex < Presence("Bob").firstIndex
                          THEN <<"Alice", "Bob">>
                          ELSE <<"Bob", "Alice">>

\* the names of the master list of the call
MasterSet == {masterNames[k] : k \in 1..Len(masterNames)}

\* no name is returned twice
NoneTwice == \A j, k \in 1..Len(orderedNames) : orderedNames[j] = orderedNames[k] => j = k

LaterSame(text, o) == {j \in (o + 1)..(Len(text) - 1) : text[j + 1] = text[o + 1]}

\* index i lies inside the span s, behind its first character
Within(s, i) == s.start < i /\ i < s.end

\* the span s of text starts at a token and ends after the next same
\* character, or at the end of the text when there is none
WellClosed(text, s) ==
    /\ s.start \in 0..(Len(text) - 1)
    /\ text[s.start + 1] \in {"\"", "*"}
    /\ s.end = IF LaterSame(text, s.start) = {} THEN Len(text)
               ELSE Least(LaterSame(text, s.start)) + 1

\* what the scanner made of the message: its bracket spans
ScannedSpans == parseBracketSpans(lastMes.mes)

\* C28: every span of parseBracketSpans starts at a double quote or an
\* asterisk and ends after the next same character; a span whose opener has
\* no later same character is [openIndex, len(text)) and is the last span
\* (the scan stops), and no name that occurs only after that opener is
\* counted; every double quote or asterisk outside the spans opened before
\* it opens a span, and no span starts at or before the closer of the span
\* before it.
C28_UnmatchedOpener ==
    rpc = "done" =>
        /\ \A k \in 1..Len(ScannedSpans) :
              /\ WellClosed(lastMes.mes, ScannedSpans[k])
              /\ LaterSame(lastMes.mes, ScannedSpans[k].start) = {} =>
                    /\ k = Len(ScannedSpans)
                    /\ Presence("a").count <=
                          Cardinality({p \in 0..(ScannedSpans[k].start - 1) :
                                          lastMes.mes[p + 1] = "a"})
                    /\ (\A p \in 0..(ScannedSpans[k].start - 1) : lastMes.mes[p + 1] # "a")
                          => orderedNames = <<>>
              /\ k < Len(ScannedSpans) => ScannedSpans[k + 1].start >= ScannedSpans[k].end
        /\ \A i \in 0..(Len(lastMes.mes) - 1) :
              (/\ lastMes.mes[i + 1] \in {"\"", "*"}
               /\ \A k \in 1..Len(ScannedSpans) : ~Within(ScannedSpans[k], i))
                 => \E k \in 1..Len(ScannedSpans) : ScannedSpans[k].start = i

\* C28 witness: a closed span, a counted name, then an asterisk without a
\* closer and a name behind it that is not counted
C28_Witness ==
    /\ rpc = "done"
    /\ lastMes.mes = <<"\"", "\"", "a", "*", "a">>
    /\ ScannedSpans = <<[start |-> 0, end |-> 2], [start |-> 3, end |-> 5]>>
    /\ Presence("a").count = 1
    /\ orderedNames = <<"a">>

(***************************************************************************)
(* Properties of the word counter.                                         *)
(***************************************************************************)
\* index q of text is a boundary for a word: outside the text, inside a
\* delimited span, or a non-word character
WordBoundary(text, q, inside) ==
    \/ q < 0
    \/ q >= Len(text)
    \/ q \in inside
    \/ IsNonWord(text[q + 1])

\* the word-bounded occurrences of name in the plain spans of text: name
\* stands at p, case-insensitively and outside the delimited spans, between
\* two word boundaries
WordOccurrences(text, name, inside) ==
    {p \in PlainOccurrences(text, name, inside) :
        /\ WordBoundary(text, p - 1, inside)
        /\ WordBoundary(text, p + Len(Spell(name)), inside)}

\* C29: countOccurrencesOutsideBrackets returns as count the number of
\* word-bounded, case-insensitive occurrences of the name in the plain spans,
\* also when two occurrences are separated by a single non-word character
\* ("Bob Bob" counts 2), and firstIndex is null exactly when count is 0.
C29_CountsWordOccurrences ==
    rpc = "done" =>
        \A name \in {"Alice", "Bob", "UserName"} :
            /\ Presence(name).count =
                  Cardinality(WordOccurrences(lastMes.mes, name, Bracketed(lastMes.mes, 0)))
            /\ Presence(name).firstIndex = -1 <=> Presence(name).count = 0

(***************************************************************************)
(* Properties of the placement and removal passes of updateMembers.        *)
(***************************************************************************)
\* the names the model's chats can yield
AllNames == UNION {Range(s) : s \in NameLists}

\* the left side, the right side, has spare capacity or is unbounded
LeftAccepts == numLeft = -1 \/ Len(left) < numLeft

RightAccepts == numRight = -1 \/ Len(right) < numRight

\* the step places the one name x, on a side, and does nothing else to the
\* sides or to current
PlacesOnSide(x) ==
    /\ ~Contains(left, x)
    /\ ~Contains(right, x)
    /\ current' = current
    /\ \/ left' = Append(left, x) /\ right' = right
       \/ left' = left /\ right' = Append(right, x)

\* C24: side selection biases growth to the side with fewer members, left on
\* ties: when current is set and both sides can accept a name, a name that
\* is placed goes to left if |left| <= |right| and to right otherwise.
C24_FewerMembersSide ==
    [][\A x \in AllNames :
          (current # Null /\ LeftAccepts /\ RightAccepts /\ PlacesOnSide(x)) =>
              IF Len(left) <= Len(right)
              THEN left' = Append(left, x)
              ELSE right' = Append(right, x)]_vars

\* the step of updateMembers removes the one name x from nameList
RemovesName(x) ==
    /\ endCalls' = endCalls
    /\ Contains(nameList, x)
    /\ nameList' = Without(nameList, x)

\* C25: removing a name affects only that name: when updateMembers removes a
\* name, left and right keep their other names in their order and current
\* keeps its value unless it was that name; in particular removing a name
\* that was on neither side and was not current leaves current unchanged.
C25_RemovalFrame ==
    [][\A x \in AllNames :
          RemovesName(x) =>
              /\ left' = Without(left, x)
              /\ right' = Without(right, x)
              /\ current' = IF current = x THEN Null ELSE current]_vars

\* the step is a call of end()
EndStep == endCalls' = endCalls + 1

\* C26: current is assigned only when it is unset: once set, current is
\* changed by no addition, shrink or backfill, only by the removal of that
\* name from nameList or by end(); and a name that is given to current is
\* given to it when current was unset.
C26_CurrentOnlyWhenUnset ==
    [][(current # Null /\ current' # current) =>
          \/ EndStep
          \/ current' = Null /\ RemovesName(current)]_vars

\* the names of nameList that are in neither side and are not current
Unassigned == {x \in Range(nameList) : ~Contains(left, x) /\ ~Contains(right, x) /\ x # current}

\* C27: backfill completeness. When updateMembers has returned normally and
\* neither end() nor a capacity input came since the call was entered, no
\* name of nameList is left unassigned while current is unset or a side has
\* spare capacity or is unbounded; so the first such call after a removal or
\* after a capacity was raised assigns the names the room allows.
C27_BackfillComplete ==
    (~busy /\ clean /\ ~aborted /\ Unassigned # {}) =>
        /\ current # Null
        /\ ~LeftAccepts
        /\ ~RightAccepts

\* C27 witness: with both sides closed Bob and Carol were unassigned; after
\* numRight was raised to 1 the next call, which added and removed nothing,
\* backfilled Carol, the later of the two, and left Bob unassigned
C27_Witness ==
    /\ ~busy
    /\ clean
    /\ ~aborted
    /\ ~fx
    /\ lastTick = "ran"
    /\ numLeft = 0
    /\ numRight = 1
    /\ nameList = <<"Alice", "Bob", "Carol">>
    /\ current = "Alice"
    /\ right = <<"Carol">>
    /\ Unassigned = {"Bob"}

\* activation k of updateMembers is suspended at the await of its removed
\* loop and the step ends it
EndsAtRemoval(k) == bodies[k].pc = "exit" /\ bodies' = RemoveAt(bodies, k)

\* C30: a fault during removal skips only the offending name: a call of
\* updateMembers that meets a name to remove without a wrapper in imgs still
\* carries out its remaining removals and its additions, so a call that ends
\* where its removed loop resumes has no name left to remove but the
\* offending one and no name left to add, and no such step takes another
\* name out of nameList or imgs.
C30_RemovalFaultSkipsName ==
    [][\A k \in 1..Len(bodies) :
          EndsAtRemoval(k) =>
              /\ Len(bodies[k].removed) <= 1
              /\ bodies[k].added = <<>>
              /\ \A x \in Range(nameList) : Contains(nameList', x)
              /\ Len(imgs') = Len(imgs)]_vars

(***************************************************************************)
(* Properties of the guards of updateMembers and of restart.               *)
(***************************************************************************)
\* a step in which a call of updateMembers that was suspended returns
CallReturns == Len(bodies') < Len(bodies)

\* a step in which a loop iteration calls updateMembers
CallsUpdateMembers == lastTick' \in {"skipped", "ran", "repeated"}

\* C31: the busy guard is always released. busy is false whenever no call of
\* updateMembers is between its entry and its exit, a call that returns
\* leaves busy false, also when it returns through its catch block, the
\* iteration that follows a failed call is not skipped, and a call that set
\* busy returns in the end.
C31_BusyReleased ==
    /\ [](bodies = <<>> => ~busy)
    /\ [](aborted => ~busy)
    /\ [][CallReturns => ~busy']_vars
    /\ [][(aborted /\ CallsUpdateMembers) => lastTick' = "ran"]_vars
    /\ busy ~> ~busy

\* C31 witness: after the one restart, the call of the loop's first iteration
\* ended in its catch block (the lookup of Alice's image was rejected); the
\* next iteration was not skipped: with the same desired names it called
\* updateMembers again, which found Alice in the roster, had nothing to do
\* and returned with busy released
C31_Witness ==
    /\ lastTick = "ran"
    /\ ~busy
    /\ bodies = <<>>
    /\ ~aborted
    /\ ~fx
    /\ names = <<"Alice">>
    /\ nameList = <<"Alice">>
    /\ endCalls = 1
    /\ startCalls = 1
    /\ Len(callLog) = 1
    /\ sleeping = 1

\* a restart sequence is in progress: it is suspended at its await delay(...)
\* (its other statements run within one step)
SequenceInProgress == delaying > 0

\* C32: the restarting guard is always released: restarting is true only
\* while a restart sequence is in progress, also after end() or start() has
\* thrown, so that a trigger arriving after a finished or failed sequence
\* finds the guard down and runs a new sequence.
C32_RestartingReleased == restarting => SequenceInProgress

(***************************************************************************)
(* Properties of end() interleaved with a suspended updateMembers call.    *)
(***************************************************************************)
\* end() ran while the latest call of updateMembers was suspended, and that
\* call is still suspended
EndedWhileSuspended == busy /\ bodies # <<>> /\ ~clean /\ capsHeld

\* every name in left, right and current is in nameList
PlacedNamesListed ==
    /\ \A x \in Range(left) \cup Range(right) : Contains(nameList, x)
    /\ current # Null => Contains(nameList, current)

\* the names the suspended call is removing when it resumes
BeingRemoved ==
    IF bodies # <<>> /\ bodies[1].removed # <<>> THEN {Head(bodies[1].removed)} ELSE {}

\* C33: the roster invariant survives end() interleaved with a suspended
\* refresh: when a call of updateMembers during whose suspension end() ran
\* returns, every name in left, right and current is in nameList, and no
\* step of that call after the end() removes from imgs the wrapper of a name
\* other than the one it is processing.
C33_InvariantSurvivesEnd ==
    /\ [][(EndedWhileSuspended /\ CallReturns) => PlacedNamesListed']_vars
    /\ [][(EndedWhileSuspended /\ bodies' # bodies) =>
            \A x \in Range(imgs) \ BeingRemoved : Contains(imgs', x)]_vars

(***************************************************************************)
(* Properties of the loops and the triggers of restart.                    *)
(***************************************************************************)
\* C34: at most one periodic messageRendered loop is alive at any time,
\* after any number of restart sequences and clicks of the enable checkbox:
\* the loops waiting in a delay and the ones inside updateMembers are never
\* more than one together.
C34_AtMostOneLoop == sleeping + Len(bodies) <= 1

\* restart() call n is the latest one and its timeout is armed, after c
\* calls of start()
LatestTrigger(n, c) == Len(callLog) = n /\ n \in timers /\ startCalls = c

\* C35: no restart trigger is lost: after every call of restart(), also one
\* whose execution is suppressed because a sequence is in progress, a call
\* of start() begins later on unless another call of restart() follows.
C35_NoTriggerLost ==
    \A n \in 1..MaxCalls, c \in 0..MaxCalls :
        LatestTrigger(n, c) ~> (startCalls > c \/ Len(callLog) > n)

=============================================================================
